---------------------------- MODULE Spec2Model ----------------------------
(***************************************************************************)
(* Model of scanner.py: the ScanRule rule language.                        *)
(*   ScanRule.parse    = NAME_EXPR_PAT, _lex, _parse, registration in ALL  *)
(*   ScanRule.__call__ = evaluation of a rule against a content            *)
(* Text is a sequence of one-character strings.  Python's None is the      *)
(* record None / the operator value "None".                                *)
(***************************************************************************)
EXTENDS Integers, Sequences, FiniteSets, TLC

VARIABLES
    ALL,         \* ScanRule.ALL: function from lowercase name to rule node
    calls,       \* history of parse calls: <<[definition, result]>>
    definition,  \* argument of the current / last parse call
    result,      \* what that call returned or raised
    content,     \* argument of the last __call__ on the returned rule
    outcome,     \* what that __call__ returned or raised, with its searches
    expr,        \* _parse: the expression, group 2 of NAME_EXPR_PAT
    pos,         \* _lex: index i into the expression (1-based)
    stack,       \* _parse: the stack of rules under construction
    tokens,      \* _lex run on its own: the tokens yielded so far
    spaced       \* the text of expr with one blank between every two tokens

vars == <<ALL, calls, definition, result, content, outcome, expr, pos, stack, tokens, spaced>>

-----------------------------------------------------------------------------
(* Bounds of the model *)

MaxTokens == 4       \* fragments per generated expression
MaxContentLen == 2   \* characters per content
MaxCalls == 2        \* parse calls per behaviour of SpecRegistry

-----------------------------------------------------------------------------
(* Characters.  A character is a one-character string, except the        *)
(* backtick (U+0060), which a TLA+ string cannot hold.                     *)

Backtick == "u0060"

IsSpace(c) == c \in {" ", "\t", "\n"}

LowerLetters == <<"a", "b", "d", "f", "m", "n", "o", "r", "s", "t", "x">>
UpperLetters == <<"A", "B", "D", "F", "M", "N", "O", "R", "S", "T", "X">>

Range(s) == {s[k] : k \in 1..Len(s)}

IndexIn(s, c) == CHOOSE k \in 1..Len(s) : s[k] = c

\* str.upper() / str.lower() on one character
Upper(c) == IF c \in Range(LowerLetters) THEN UpperLetters[IndexIn(LowerLetters, c)] ELSE c

Lower(c) == IF c \in Range(UpperLetters) THEN LowerLetters[IndexIn(UpperLetters, c)] ELSE c

UpperStr(s) == [k \in 1..Len(s) |-> Upper(s[k])]

LowerStr(s) == [k \in 1..Len(s) |-> Lower(s[k])]

Digits == {"0", "1", "2"}

\* \w of the re module
IsWord(c) == c \in Range(LowerLetters) \cup Range(UpperLetters) \cup Digits \cup {"_"}

\* [-_.a-z0-9] under re.I
IsNameChar(c) == c \in Range(LowerLetters) \cup Range(UpperLetters) \cup Digits \cup {"-", "_", "."}

Slice(s, m, n) == IF m > n THEN <<>> ELSE SubSeq(s, m, n)

\* str.find(ch, start): least index >= start holding ch, 0 when there is none
Find(txt, ch, start) ==
    LET hits == {k \in start..Len(txt) : txt[k] = ch}
    IN IF hits = {} THEN 0 ELSE CHOOSE k \in hits : \A h \in hits : k <= h

\* str.strip()
Strip(txt) ==
    LET keep == {k \in 1..Len(txt) : ~IsSpace(txt[k])}
    IN IF keep = {} THEN <<>>
       ELSE Slice(txt, CHOOSE k \in keep : \A h \in keep : k <= h,
                       CHOOSE k \in keep : \A h \in keep : k >= h)


-----------------------------------------------------------------------------
(* Python values *)

None == [type |-> "None"]

Raise(exc, msg) == [type |-> "raise", exc |-> exc, msg |-> msg]

AND == <<"A", "N", "D">>
OR == <<"O", "R">>
NOT == <<"N", "O", "T">>
FROM == <<"F", "R", "O", "M">>

BINARY_OPERATORS == <<AND, OR>>

UNARY_OPERATORS == <<NOT, FROM>>

OPERATORS == BINARY_OPERATORS \o UNARY_OPERATORS

-----------------------------------------------------------------------------
(* The re module, for the patterns the model uses: literal characters and  *)
(* capture groups.  A pattern compiles when its parentheses balance; it    *)
(* matches at the first occurrence of its literal text; group k is the     *)
(* text between the k-th opening parenthesis and its partner.              *)

RECURSIVE Depths(_, _, _)
\* nesting depth after each character of src
Depths(src, k, d) ==
    IF k > Len(src) THEN <<>>
    ELSE LET e == IF src[k] = "(" THEN d + 1 ELSE IF src[k] = ")" THEN d - 1 ELSE d
         IN <<e>> \o Depths(src, k + 1, e)

Balanced(src) ==
    LET ds == Depths(src, 1, 0)
    IN (\A k \in 1..Len(ds) : ds[k] >= 0) /\ (ds = <<>> \/ ds[Len(ds)] = 0)

LiteralText(src) == SelectSeq(src, LAMBDA ch : ch \notin {"(", ")"})

\* re.compile(source)
Compile(src) ==
    IF Balanced(src) THEN [type |-> "Pattern", pattern |-> src]
    ELSE Raise("re.error", "unbalanced parenthesis")

RECURSIVE GroupTexts(_, _)
\* the texts of the capture groups of src opened at index >= k, in order
GroupTexts(src, k) ==
    IF k > Len(src) THEN <<>>
    ELSE IF src[k] # "(" THEN GroupTexts(src, k + 1)
    ELSE LET ds == Depths(src, 1, 0)
             q == CHOOSE j \in k + 1..Len(src) :
                      /\ ds[j] = ds[k] - 1
                      /\ \A h \in k..j - 1 : ds[h] >= ds[k]
         IN <<LiteralText(Slice(src, k + 1, q - 1))>> \o GroupTexts(src, k + 1)

\* Pattern.search(content): a Match (0-based span, Match.groups()) or None
Search(regex, c) ==
    LET lit == LiteralText(regex.pattern)
        hits == {k \in 0..Len(c) - Len(lit) : Slice(c, k + 1, k + Len(lit)) = lit}
    IN IF hits = {} THEN None
       ELSE LET start == CHOOSE k \in hits : \A h \in hits : k <= h
            IN [type |-> "Match", start |-> start, end |-> start + Len(lit),
                groups |-> GroupTexts(regex.pattern, 1)]

\* truth value of what __call__ handles
Truthy(v) ==
    \/ v.type = "Match"
    \/ v.type = "bool" /\ v.value
    \/ v.type = "str" /\ v.value # <<>>

-----------------------------------------------------------------------------
(* ScanRule: construction *)

\* ScanRule.__init__
NewRule == [type |-> "ScanRule", left |-> None, operator |-> None, right |-> None]

\* ScanRule.set_next_operand: the rule after the call, or what it raises
set_next_operand(self, operand) ==
    IF self.operator # None
    THEN IF self.right = None
         THEN [self EXCEPT !.right = operand]
         ELSE Raise("ValueError", "Extra operand")
    ELSE [self EXCEPT !.left = operand]

set_operatorReassigns(self, operator) ==
    IF self.left = None /\ operator \in Range(BINARY_OPERATORS)
    THEN Raise("ValueError", "Operator before left operand")
    ELSE [self EXCEPT !.operator = operator]

\* ScanRule.set_operator: the rule after the call, or what it raises
set_operator(self, operator) ==
    IF self.operator # None
    THEN Raise("ValueError", "Extra operator")
    ELSE IF self.left = None /\ operator \in Range(BINARY_OPERATORS)
    THEN Raise("ValueError", "Operator before left operand")
    ELSE [self EXCEPT !.operator = operator]

\* ScanRule.needs_operator
needs_operator(self) == self.left # None /\ self.operator # None

-----------------------------------------------------------------------------
(* ScanRule.parse._lex *)

\* OPERATOR_PAT.match(txt, i): the operators whose keyword stands at i,
\* in any letter case, followed by one non-word character
OperatorMatches(txt, i) ==
    {k \in 1..Len(OPERATORS) :
        /\ i + Len(OPERATORS[k]) <= Len(txt)
        /\ UpperStr(Slice(txt, i, i + Len(OPERATORS[k]) - 1)) = OPERATORS[k]
        /\ ~IsWord(txt[i + Len(OPERATORS[k])])}

\* first index >= i that holds no whitespace (Len(txt) + 1 when none)
SkipSpace(txt, i) ==
    LET stops == {k \in i..Len(txt) : ~IsSpace(txt[k])}
    IN IF stops = {} THEN Len(txt) + 1 ELSE CHOOSE k \in stops : \A h \in stops : k <= h

\* one round of the generator's loop from index i: the token it yields and
\* the index it resumes at, its return at the end of the text, or its error
LexNext(txt, i0) ==
    LET i == SkipSpace(txt, i0)
    IN IF i > Len(txt) THEN [type |-> "return"]
       ELSE IF txt[i] = Backtick
       THEN LET end == Find(txt, Backtick, i + 1)
            IN IF end > 0
               THEN [type |-> "yield", token |-> Slice(txt, i, end), i |-> end + 1]
               ELSE Raise("ValueError", "Backtick expression not terminated")
       ELSE IF txt[i] \in {"(", ")"}
       THEN [type |-> "yield", token |-> <<txt[i]>>, i |-> i + 1]
       ELSE LET m == OperatorMatches(txt, i)
            IN IF m # {}
               THEN LET k == CHOOSE k \in m : \A h \in m : k <= h
                    IN [type |-> "yield", token |-> OPERATORS[k],
                        i |-> i + Len(OPERATORS[k]) + 1]
               ELSE Raise("ValueError", "Expected boolean operator")

-----------------------------------------------------------------------------
(* ScanRule.parse._parse *)

Top(stk) == stk[Len(stk)]

Pop(stk) == Slice(stk, 1, Len(stk) - 1)

ReplaceTop(stk, rule) == Pop(stk) \o <<rule>>

Stack(stk) == [type |-> "stack", stack |-> stk]

IsRaise(v) == v.type = "raise"

\* the body of the for loop on one token: the stack afterwards, or the error
ParseToken(stk, token) ==
    LET rule == Top(stk)
    IN IF token \in Range(OPERATORS)
       THEN LET r == set_operator(rule, token)
            IN IF IsRaise(r) THEN r ELSE Stack(ReplaceTop(stk, r))
       ELSE IF token[1] = Backtick
       THEN LET regex == Compile(Slice(token, 2, Len(token) - 1))
            IN IF IsRaise(regex) THEN regex
               ELSE LET r == set_next_operand(rule, regex)
                    IN IF IsRaise(r) THEN r ELSE Stack(ReplaceTop(stk, r))
       ELSE IF token = <<"(">>
       THEN IF rule.right # None \/ needs_operator(rule)
            THEN Raise("ValueError", "Group must be preceded by an operator")
            ELSE Stack(stk \o <<NewRule>>)
       ELSE IF token = <<")">>
       THEN LET child == Top(stk)
                rest == Pop(stk)
            IN IF rest = <<>> THEN Raise("IndexError", "list index out of range")
               ELSE IF Top(rest).left = None
               THEN Stack(ReplaceTop(rest, child))
               ELSE LET r == set_next_operand(Top(rest), child)
                    IN IF IsRaise(r) THEN r ELSE Stack(ReplaceTop(rest, r))
       ELSE Stack(stk)

\* after the loop: the rule returned, or the error
ParseEnd(stk) ==
    IF Len(stk) > 1 THEN Raise("ValueError", "Unclosed group")
    ELSE IF needs_operator(Top(stk)) /\ Top(stk).left.type # "Pattern"
    THEN Raise("AssertionError", "")
    ELSE Top(stk)

RECURSIVE ParseFrom(_, _, _)
\* the for loop over _lex(expr), resumed at index i with stack stk
ParseFrom(e, i, stk) ==
    LET t == LexNext(e, i)
    IN IF IsRaise(t) THEN t
       ELSE IF t.type = "return" THEN ParseEnd(stk)
       ELSE LET s == ParseToken(stk, t.token)
            IN IF IsRaise(s) THEN s ELSE ParseFrom(e, t.i, s.stack)

\* _parse(expr)
ParseExpr(e) == ParseFrom(e, 1, <<NewRule>>)

-----------------------------------------------------------------------------
(* ScanRule.parse *)

\* NAME_EXPR_PAT.match(s): groups 1 and 2, or None
NameExprMatch(s) ==
    LET ends == {k \in 0..Len(s) : \A h \in 1..k : IsNameChar(s[h])}
        n == CHOOSE k \in ends : \A h \in ends : k >= h
        colon == SkipSpace(s, n + 1)
        e == SkipSpace(s, colon + 1)
        nl == Find(s, "\n", e)
    IN IF n = 0 \/ colon > Len(s) THEN None
       ELSE IF s[colon] # ":" \/ e > Len(s) THEN None
       ELSE [type |-> "Match", name |-> Slice(s, 1, n),
             expr |-> Slice(s, e, IF nl > 0 THEN nl - 1 ELSE Len(s))]

\* parse(definition): what it returns or raises
ParseResult(defn) ==
    LET m == NameExprMatch(Strip(defn))
    IN IF m # None THEN ParseExpr(m.expr)
       ELSE Raise("ValueError", "Not a name followed by an expression")

RegisterNoLower(all, name, rule) ==
    [k \in DOMAIN all \cup {name} |-> IF k = name THEN rule ELSE all[k]]

\* line 165: ScanRule.ALL[name.lower()] = rule
Register(all, name, rule) ==
    [k \in DOMAIN all \cup {LowerStr(name)} |-> IF k = LowerStr(name) THEN rule ELSE all[k]]

ParseRegistryEarly(all, defn) ==
    LET m == NameExprMatch(Strip(defn))
        res == ParseResult(defn)
    IN IF m # None
       THEN Register(all, m.name, IF IsRaise(res) THEN NewRule ELSE res)
       ELSE all

\* ScanRule.ALL after parse(definition), given ScanRule.ALL before it
ParseRegistry(all, defn) ==
    LET m == NameExprMatch(Strip(defn))
        res == ParseResult(defn)
    IN IF m # None /\ ~IsRaise(res)
       THEN Register(all, m.name, res)
       ELSE all

-----------------------------------------------------------------------------
(* ScanRule.__call__ *)

RECURSIVE Call(_, _)

\* call_or_match: the value (or error) and the searches made, in order
call_or_match(regex_or_rule, c) ==
    IF regex_or_rule.type = "Pattern"
    THEN [value |-> Search(regex_or_rule, c),
          searched |-> <<[pattern |-> regex_or_rule.pattern, content |-> c]>>]
    ELSE IF regex_or_rule.type = "ScanRule" THEN Call(regex_or_rule, c)
    ELSE [value |-> Raise("TypeError", "NoneType object is not callable"),
          searched |-> <<>>]

\* line 208: the operators under which the left operand is evaluated
EvaluatesLeft(o) == o = None \/ o = AND \/ o = OR

ReturnsLeftNoShortCircuit(o, l) == o = None

\* lines 210-214: the left result is returned and the right operand skipped
ReturnsLeft(o, l) == o = None \/ (o = OR /\ Truthy(l))

FromRightNotUnnegated(o, r) ==
    IF o = NOT THEN r
    ELSE IF o = FROM
    THEN IF Truthy(r)
         THEN IF r.type # "Match" THEN Raise("AttributeError", "no attribute groups")
              ELSE IF Len(r.groups) > 1 THEN [type |-> "str", value |-> r.groups[2]]
              ELSE IF Len(r.groups) = 1 THEN [type |-> "str", value |-> r.groups[1]]
              ELSE Raise("IndexError", "tuple index out of range")
         ELSE None
    ELSE r

\* lines 216-223: what is returned once the right operand gave r
FromRight(o, r) ==
    IF o = NOT THEN [type |-> "bool", value |-> ~Truthy(r)]
    ELSE IF o = FROM
    THEN IF Truthy(r)
         THEN IF r.type # "Match" THEN Raise("AttributeError", "no attribute groups")
              ELSE IF Len(r.groups) > 1 THEN [type |-> "str", value |-> r.groups[2]]
              ELSE IF Len(r.groups) = 1 THEN [type |-> "str", value |-> r.groups[1]]
              ELSE Raise("IndexError", "tuple index out of range")
         ELSE None
    ELSE r

\* __call__(content): the value returned (or the error raised) and the
\* searches made, in order
Call(self, c) ==
    LET o == self.operator
        l == IF EvaluatesLeft(o) THEN call_or_match(self.left, c)
             ELSE [value |-> None, searched |-> <<>>]
    IN IF IsRaise(l.value) THEN l
       ELSE IF ReturnsLeft(o, l.value) THEN l
       ELSE LET r == call_or_match(self.right, c)
            IN [value |-> IF IsRaise(r.value) THEN r.value ELSE FromRight(o, r.value),
                searched |-> l.searched \o r.searched]

-----------------------------------------------------------------------------
(* Inputs *)

Lit(src) == <<Backtick>> \o src \o <<Backtick>>

\* the regex sources the generated rules use: one without and one with a
\* capture group
Patterns == {<<"a">>, <<"(", "b", ")">>}

\* pieces of rule text: a literal, an operator keyword with the blank that
\* ends it (in either letter case, as the tests write them), a parenthesis
KwAND == <<"a", "n", "d", " ">>
KwOR == <<"O", "R", " ">>
KwNOT == <<"n", "o", "t", " ">>
KwFROM == <<"F", "R", "O", "M", " ">>

Literals == {Lit(src) : src \in Patterns}

Fragments == Literals \cup {KwAND, KwOR, KwNOT, KwFROM} \cup {<<"(">>, <<")">>}

RECURSIVE Concat(_)
Concat(ss) == IF ss = <<>> THEN <<>> ELSE Head(ss) \o Concat(Tail(ss))

FragmentSeqs(n) == UNION {[1..k -> Fragments] : k \in 1..n}

Expressions == {Concat(fs) : fs \in FragmentSeqs(MaxTokens)}

\* fs with its k-th fragment put in parentheses
Wrap(fs, k) == Slice(fs, 1, k - 1) \o <<<<"(">>, fs[k], <<")">>>> \o Slice(fs, k + 1, Len(fs))

\* the docstring's boolean expression: P1 AND NOT (P2 OR P3)
DocExpression(p1, p2, p3) ==
    Lit(p1) \o <<" ", "A", "N", "D", " ", "N", "O", "T", " ", "(">> \o Lit(p2)
        \o <<" ", "O", "R", " ">> \o Lit(p3) \o <<")">>

DocExpressions == {DocExpression(p1, p2, p3) : p1, p2, p3 \in Patterns}

Define(name, e) == name \o <<":", " ">> \o e

\* an expression that parses, and the same expression with one literal
\* operand, or the whole of it, in parentheses
GroupPairs ==
    LET plain == {fs \in FragmentSeqs(MaxTokens - 1) :
                     ~IsRaise(ParseResult(Define(<<"r">>, Concat(fs))))}
    IN {[plain |-> Concat(fs), grouped |-> <<"(">> \o Concat(fs) \o <<")">>] : fs \in plain}
           \cup UNION {{[plain |-> Concat(fs), grouped |-> Concat(Wrap(fs, k))] :
                           k \in {h \in 1..Len(fs) : fs[h] \in Literals}} : fs \in plain}

GroupedExpressions == {pr.grouped : pr \in GroupPairs}

\* right operands for FROM with no, one, two and three capture groups
GroupPatterns ==
    {<<"a">>, <<"(", "b", ")">>, <<"(", "a", ")", "(", "b", ")">>,
     <<"(", "(", "a", ")", "(", "b", ")", ")">>}

\* the definitions FROM Q and P FROM Q
FromForms(q) == {KwFROM \o Lit(q)} \cup {Lit(p) \o KwFROM \o Lit(q) : p \in Patterns}

FromExpressions == UNION {FromForms(q) : q \in GroupPatterns}

Definitions ==
    {Define(<<"r">>, e) :
        e \in Expressions \cup DocExpressions \cup GroupedExpressions \cup FromExpressions}

Contents == UNION {[1..k -> {"a", "b"}] : k \in 0..MaxContentLen}

\* definitions for the registry: three spellings of two names, rules that
\* parse, rules that fail in _lex, in _parse and in NAME_EXPR_PAT
RegistryNames == {<<"r">>, <<"R">>, <<"s">>}

RegistryExpressions ==
    {Lit(<<"a">>),
     Lit(<<"a">>) \o <<" ", "o", "r", " ">> \o Lit(<<"b">>),
     <<"n", "o", "t", " ">> \o Lit(<<"b">>),
     <<"(">> \o Lit(<<"b">>),
     <<Backtick, "a">>,
     Lit(<<"a">>) \o <<" ", "x">>,
     Lit(<<"a">>) \o <<" ", "A", "N", "D", " ", "A", "N", "D", " ">> \o Lit(<<"b">>),
     <<")">>}

RegistryDefinitions ==
    {Define(n, e) : n \in RegistryNames, e \in RegistryExpressions}
        \cup {n \o <<" ">> \o Lit(<<"a">>) : n \in RegistryNames}
        \cup {n \o <<":">> : n \in RegistryNames}
        \cup {<<":", " ">> \o Lit(<<"a">>)}

-----------------------------------------------------------------------------
(* Actions *)

NotCalled == [type |-> "NotCalled"]

Running == [type |-> "running"]

Empty == <<>>

\* ScanRule.parse(d)
ParseCall(d) ==
    /\ definition' = d
    /\ result' = ParseResult(d)
    /\ ALL' = ParseRegistry(ALL, d)
    /\ calls' = Append(calls, [definition |-> d, result |-> ParseResult(d)])
    /\ content' = Empty
    /\ outcome' = NotCalled
    /\ UNCHANGED <<expr, pos, stack, tokens, spaced>>

\* the caller parses its definition
Parse ==
    /\ calls = <<>>
    /\ ParseCall(definition)

\* the caller applies the rule parse returned to a content
Evaluate(c) ==
    /\ result.type = "ScanRule"
    /\ content' = c
    /\ outcome' = [type |-> "outcome"] @@ Call(result, c)
    /\ UNCHANGED <<ALL, calls, definition, result, expr, pos, stack, tokens, spaced>>

Init ==
    /\ ALL = Empty
    /\ calls = <<>>
    /\ definition \in Definitions
    /\ result = NotCalled
    /\ content = Empty
    /\ outcome = NotCalled
    /\ expr = Empty
    /\ pos = 0
    /\ stack = <<>>
    /\ tokens = <<>>
    /\ spaced = Empty

Next ==
    \/ Parse
    \/ \E c \in Contents : Evaluate(c)

Spec == Init /\ [][Next]_vars

\* a session of parse calls against the one registry
ParseAny ==
    /\ Len(calls) < MaxCalls
    /\ \E d \in RegistryDefinitions : ParseCall(d)

InitRegistry ==
    /\ ALL = Empty
    /\ calls = <<>>
    /\ definition = Empty
    /\ result = NotCalled
    /\ content = Empty
    /\ outcome = NotCalled
    /\ expr = Empty
    /\ pos = 0
    /\ stack = <<>>
    /\ tokens = <<>>
    /\ spaced = Empty

NextRegistry == ParseAny

SpecRegistry == InitRegistry /\ [][NextRegistry]_vars

-----------------------------------------------------------------------------
(* parse, one token at a time: _lex yields a token and the body of the     *)
(* for loop of _parse consumes it.                                         *)

\* what _lex does next
Lexed == LexNext(expr, pos)

\* parse ends, returning or raising r
Finish(r) ==
    /\ result' = r
    /\ calls' = Append(calls, [definition |-> definition, result |-> r])
    /\ ALL' = IF IsRaise(r) THEN ALL
              ELSE Register(ALL, NameExprMatch(Strip(definition)).name, r)
    /\ UNCHANGED <<definition, content, outcome, expr, pos, stack, tokens, spaced>>

\* lines 162-164, 131-134: match NAME_EXPR_PAT and enter _parse
Begin ==
    /\ result = NotCalled
    /\ IF NameExprMatch(Strip(definition)) = None
       THEN Finish(Raise("ValueError", "Not a name followed by an expression"))
       ELSE /\ result' = Running
            /\ expr' = NameExprMatch(Strip(definition)).expr
            /\ pos' = 1
            /\ stack' = <<NewRule>>
            /\ UNCHANGED <<ALL, calls, definition, content, outcome, tokens, spaced>>

\* one iteration of the for loop on the token _lex yields
Consume ==
    LET s == ParseToken(stack, Lexed.token)
    IN IF IsRaise(s) THEN Finish(s)
       ELSE /\ stack' = s.stack
            /\ pos' = Lexed.i
            /\ UNCHANGED <<ALL, calls, definition, result, content, outcome, expr, tokens, spaced>>

Yields == result = Running /\ Lexed.type = "yield"

OnOperator == Yields /\ Lexed.token \in Range(OPERATORS) /\ Consume

OnLiteral == Yields /\ Lexed.token[1] = Backtick /\ Consume

OnOpen == Yields /\ Lexed.token = <<"(">> /\ Consume

OnClose == Yields /\ Lexed.token = <<")">> /\ Consume

\* _lex raises
OnLexError == result = Running /\ IsRaise(Lexed) /\ Finish(Lexed)

\* _lex returns: lines 156-160 and 165-166
OnEnd == result = Running /\ Lexed.type = "return" /\ Finish(ParseEnd(stack))

NextBuild ==
    \/ Begin
    \/ OnOperator
    \/ OnLiteral
    \/ OnOpen
    \/ OnClose
    \/ OnLexError
    \/ OnEnd

SpecBuild == Init /\ [][NextBuild]_vars

\* the token-wise run ends as the whole call does
BuildAgreesWithParse ==
    result \notin {NotCalled, Running} =>
        /\ result = ParseResult(definition)
        /\ ALL = ParseRegistry(Empty, definition)

-----------------------------------------------------------------------------
(* ScanRule.parse._lex on its own, one round of its loop per step *)

\* the texts of single tokens: a literal, the parentheses, and the four
\* operator keywords in lower, mixed and upper case
LexWords ==
    {Lit(<<"a">>), <<"(">>, <<")">>,
     <<"a", "n", "d">>, <<"O", "r">>, <<"N", "O", "T">>, <<"f", "r", "o", "m">>}

IsKeyword(w) == UpperStr(w) \in Range(OPERATORS)

LexWordSeqs == UNION {[1..n -> LexWords] : n \in 1..MaxTokens - 1}

\* ws[k] seps[k] ws[k+1] ... ws[Len(ws)]
RECURSIVE JoinFrom(_, _, _)
JoinFrom(ws, seps, k) ==
    IF k = Len(ws) THEN ws[k] ELSE ws[k] \o seps[k] \o JoinFrom(ws, seps, k + 1)

\* the words stay the tokens of the joined text: two keywords are kept
\* apart, and the text does not end in a keyword
Separable(ws, seps) ==
    /\ ~IsKeyword(ws[Len(ws)])
    /\ \A k \in 1..Len(ws) - 1 :
           (IsKeyword(ws[k]) /\ IsKeyword(ws[k + 1])) => seps[k] # <<>>

Returned == [type |-> "return"]

InitLex ==
    /\ ALL = Empty
    /\ calls = <<>>
    /\ definition = Empty
    /\ result = Running
    /\ content = Empty
    /\ outcome = NotCalled
    /\ \E ws \in LexWordSeqs :
           \E seps \in [1..Len(ws) - 1 -> {<<>>, <<" ">>}] :
               /\ Separable(ws, seps)
               /\ expr = JoinFrom(ws, seps, 1)
               /\ spaced = JoinFrom(ws, [k \in 1..Len(ws) - 1 |-> <<" ">>], 1)
    /\ pos = 1
    /\ stack = <<>>
    /\ tokens = <<>>

LexKeeps == UNCHANGED <<ALL, calls, definition, content, outcome, expr, stack, spaced>>

\* yield: lines 116, 121, 126
LexYield ==
    /\ result = Running
    /\ Lexed.type = "yield"
    /\ tokens' = Append(tokens, Lexed.token)
    /\ pos' = Lexed.i
    /\ UNCHANGED result
    /\ LexKeeps

\* return at the end of the text: line 112
LexReturn ==
    /\ result = Running
    /\ Lexed.type = "return"
    /\ result' = Returned
    /\ UNCHANGED <<pos, tokens>>
    /\ LexKeeps

\* raise: lines 119, 129
LexRaise ==
    /\ result = Running
    /\ IsRaise(Lexed)
    /\ result' = Lexed
    /\ UNCHANGED <<pos, tokens>>
    /\ LexKeeps

NextLex == LexYield \/ LexReturn \/ LexRaise

SpecLex == InitLex /\ [][NextLex]_vars

-----------------------------------------------------------------------------
(* Properties of evaluation, checked under Spec *)

Called == outcome.type = "outcome"

\* the rule matched the content: __call__ returned a true value
Matched == Called /\ ~IsRaise(outcome.value) /\ Truthy(outcome.value)

\* the first match of the pattern p in the text c, or None
Occurs(p, c) == Search(Compile(p), c)

\* the evidence of a match: the first capture group, else the matched text
Evidence(m, c) == IF m.groups # <<>> THEN m.groups[1] ELSE Slice(c, m.start + 1, m.end)

RuleText(e) == Define(<<"r">>, e)

\* C1: a rule P1 AND P2 matches a content iff P1 matches it and P2 matches
\* it, each searched in the whole content, and then returns P2's match.
C1_AndMatchesIffBoth ==
    \A p1, p2 \in Patterns :
        (definition = RuleText(Lit(p1) \o KwAND \o Lit(p2)) /\ Called) =>
            /\ Matched <=> (Occurs(p1, content) # None /\ Occurs(p2, content) # None)
            /\ Matched => outcome.value = Occurs(p2, content)
            /\ \A k \in 1..Len(outcome.searched) : outcome.searched[k].content = content

\* C2: a rule P1 FROM P2 does not match when P2 does not match; when P2
\* matches, it matches iff P1 matches inside P2's evidence, and returns
\* that match of P1.
C2_FromSearchesLeftInRightEvidence ==
    \A p1, p2 \in Patterns :
        (definition = RuleText(Lit(p1) \o KwFROM \o Lit(p2)) /\ Called) =>
            LET r == Occurs(p2, content)
            IN IF r = None THEN ~Matched
               ELSE /\ Matched <=> Occurs(p1, Evidence(r, content)) # None
                    /\ Matched => outcome.value.type = "Match"

SameVerdict(v, w) == IsRaise(v) = IsRaise(w) /\ (~IsRaise(v) => (Truthy(v) <=> Truthy(w)))

\* C3: a definition with a literal operand, or the whole expression, put in
\* parentheses parses, and matches exactly the contents that the definition
\* without those parentheses matches.
C3_GroupingIdempotence ==
    \A pr \in GroupPairs :
        (definition = RuleText(pr.grouped) /\ result # NotCalled) =>
            /\ result.type = "ScanRule"
            /\ Called => SameVerdict(outcome.value, 
                   Call(ParseResult(RuleText(pr.plain)), content).value)

\* C4: a rule P1 OR P2 matches a content iff P1 or P2 matches it; when P1
\* matches, the result is P1's match and P2 is not searched; otherwise the
\* result is what the search of P2 gave.
C4_OrMatchesIffEither ==
    \A p1, p2 \in Patterns :
        (definition = RuleText(Lit(p1) \o KwOR \o Lit(p2)) /\ Called) =>
            LET m1 == Occurs(p1, content)
                m2 == Occurs(p2, content)
            IN /\ Matched <=> (m1 # None \/ m2 # None)
               /\ m1 # None =>
                      /\ outcome.value = m1
                      /\ outcome.searched = <<[pattern |-> p1, content |-> content]>>
               /\ m1 = None =>
                      /\ outcome.value = m2
                      /\ outcome.searched = <<[pattern |-> p1, content |-> content],
                                              [pattern |-> p2, content |-> content]>>

\* C4 witness: P1 OR P2 with different patterns was applied to a content
\* both match, and only P1 was searched.
C4_Witness ==
    \E p1, p2 \in Patterns :
        /\ p1 # p2
        /\ definition = RuleText(Lit(p1) \o KwOR \o Lit(p2))
        /\ Called
        /\ Occurs(p1, content) # None
        /\ Occurs(p2, content) # None
        /\ Len(outcome.searched) = 1

\* the definitions NOT P and Q NOT P over pattern literals
NotForms(p) == {RuleText(KwNOT \o Lit(p))} \cup {RuleText(Lit(q) \o KwNOT \o Lit(p)) : q \in Patterns}

\* C5: a rule NOT P matches a content iff P does not match it, and P (the
\* right operand) is the only operand searched.
C5_NotMatchesIffOperandFails ==
    \A p \in Patterns :
        (definition \in NotForms(p) /\ Called) =>
            /\ Matched <=> Occurs(p, content) = None
            /\ outcome.searched = <<[pattern |-> p, content |-> content]>>

\* C5 witness: Q NOT P was applied to a content that Q matches and P does
\* not, and it matched.
C5_Witness ==
    \E p, q \in Patterns :
        /\ p # q
        /\ definition = RuleText(Lit(q) \o KwNOT \o Lit(p))
        /\ Matched
        /\ Occurs(q, content) # None
        /\ Occurs(p, content) = None

\* C6: the docstring's form P1 AND NOT (P2 OR P3) parses, and the rule
\* matches a content iff P1 matches it and neither P2 nor P3 does.
C6_DocumentedFormParses ==
    \A p1, p2, p3 \in Patterns :
        (definition = RuleText(DocExpression(p1, p2, p3)) /\ result # NotCalled) =>
            /\ result.type = "ScanRule"
            /\ Called =>
                  (Matched <=> /\ Occurs(p1, content) # None
                               /\ Occurs(p2, content) = None
                               /\ Occurs(p3, content) = None)

\* C7: applying a rule that parse returned to a content never raises.
C7_EvaluationNeverRaises == Called => ~IsRaise(outcome.value)

\* C11: the scope FROM takes from a match of its right operand is the
\* first capture group when the match has capture groups, however many,
\* and the whole matched text when it has none.
C11_FromScopeIsFirstGroup ==
    \A q \in GroupPatterns :
        (definition \in {RuleText(e) : e \in FromForms(q)}
             /\ Called /\ Occurs(q, content) # None) =>
            outcome.value = [type |-> "str",
                             value |-> Evidence(Occurs(q, content), content)]

\* the operands a node needs for its operator
HasOperands(node) ==
    IF node.operator = None THEN node.left # None /\ node.right = None
    ELSE IF node.operator \in Range(BINARY_OPERATORS)
         THEN node.left # None /\ node.right # None
    ELSE node.right # None

\* C12: every node returned by a successful parse has the operands its
\* operator needs: no operator - left set and right absent; AND or OR -
\* both set; NOT or FROM - right set.
C12_ReturnedNodeIsWellFormed ==
    result.type = "ScanRule" => HasOperands(result)

-----------------------------------------------------------------------------
(* Properties of the registry, checked under SpecRegistry *)

\* the name a definition declares: the text before its first colon
DeclaredName(d) ==
    LET colon == Find(d, ":", 1)
    IN IF colon = 0 THEN <<>> ELSE Strip(Slice(d, 1, colon - 1))

\* equal but for letter case
SameName(n, key) == UpperStr(n) = UpperStr(key)

\* the calls that returned a rule declared under a name equal to key
Successes(key) ==
    {k \in 1..Len(calls) :
        /\ calls[k].result.type = "ScanRule"
        /\ SameName(DeclaredName(calls[k].definition), key)}

Last(S) == CHOOSE k \in S : \A h \in S : k >= h

RegistryIsLastWriter ==
    /\ \A key \in DOMAIN ALL : key = LowerStr(key)
    /\ \A n \in RegistryNames \cup DOMAIN ALL :
           LET key == LowerStr(n)
           IN IF Successes(key) = {} THEN key \notin DOMAIN ALL
              ELSE key \in DOMAIN ALL /\ ALL[key] = calls[Last(Successes(key))].result

\* C8: after any sequence of parse calls the registry maps each lowercase
\* name to the rule returned by the latest successful parse that declared
\* that name in any letter case, and no registered name is ever removed.
C8_RegistryLastWriterWins ==
    /\ []RegistryIsLastWriter
    /\ [][DOMAIN ALL \subseteq DOMAIN ALL']_vars

\* C8 witness: two successful parses declared r and R with different
\* rules, and the registry holds the second rule under r.
C8_Witness ==
    /\ Len(calls) = 2
    /\ DeclaredName(calls[1].definition) = <<"r">>
    /\ DeclaredName(calls[2].definition) = <<"R">>
    /\ calls[1].result.type = "ScanRule"
    /\ calls[2].result.type = "ScanRule"
    /\ calls[1].result # calls[2].result
    /\ DOMAIN ALL = {<<"r">>}
    /\ ALL[<<"r">>] = calls[2].result

\* C9: a parse call that raises leaves the registry as it was.
C9_FailedParseKeepsRegistry ==
    [][(calls' # calls /\ IsRaise(result')) => ALL' = ALL]_vars

\* C9 witness: a parse under a registered name failed in _parse, and the
\* registry still holds the earlier rule under that name.
C9_Witness ==
    /\ Len(calls) = 2
    /\ calls[1].result.type = "ScanRule"
    /\ IsRaise(calls[2].result)
    /\ calls[2].result.msg = "Extra operator"
    /\ SameName(DeclaredName(calls[1].definition), DeclaredName(calls[2].definition))
    /\ ALL = Register(Empty, DeclaredName(calls[1].definition), calls[1].result)

-----------------------------------------------------------------------------
(* Properties of the construction, checked under SpecBuild *)

\* the step keeps the operator of every rule that stays on the stack
KeepsOperators ==
    IF Lexed.token = <<")">>
    THEN /\ Len(stack') = Len(stack) - 1
         /\ \A k \in 1..Len(stack) - 2 : stack'[k] = stack[k]
         /\ \/ Top(stack') = Top(stack)
            \/ /\ Top(stack').operator = Top(Pop(stack)).operator
               /\ Top(stack) \in {Top(stack').left, Top(stack').right}
    ELSE \A k \in 1..Len(stack) :
             stack[k].operator # None => stack'[k].operator = stack[k].operator

PlacesOperand(rest, rule, operand) ==
    IF rule.left = None /\ rule.operator = None
    THEN result' = Running /\ stack' = rest \o <<[rule EXCEPT !.left = operand]>>
    ELSE IF rule.operator # None /\ rule.right = None
    THEN result' = Running /\ stack' = rest \o <<[rule EXCEPT !.right = operand]>>
    ELSE result' = Raise("ValueError", "Extra operand")

\* C13: an operand - a pattern literal, or a group closed inside a rule
\* that has a left operand - never overwrites a filled slot: it fills left
\* of a rule with nothing set, fills right when an operator is pending and
\* right is empty, and otherwise parse raises the extra-operand error.
C13_OperandNeverOverwrites ==
    [][Yields =>
          /\ Lexed.token[1] = Backtick =>
                 PlacesOperand(Pop(stack), Top(stack),
                               Compile(Slice(Lexed.token, 2, Len(Lexed.token) - 1)))
          /\ (Lexed.token = <<")">> /\ Len(stack) > 1
                  /\ Top(Pop(stack)).left # None) =>
                 PlacesOperand(Pop(Pop(stack)), Top(Pop(stack)), Top(stack))]_vars

\* a group may open here: as the first operand of the rule, or after an
\* operator whose right operand is still empty
MayOpenGroup(rule) ==
    \/ rule.left = None /\ rule.operator = None
    \/ rule.operator # None /\ rule.right = None

\* C14: an opening parenthesis is accepted, pushing a new rule, exactly
\* when the current rule has nothing set or has an operator with an empty
\* right operand; in every other state parse raises the
\* group-must-be-preceded-by-an-operator error.
C14_GroupOpensOnlyAfterOperator ==
    [][(Yields /\ Lexed.token = <<"(">>) =>
          IF MayOpenGroup(Top(stack))
          THEN result' = Running /\ stack' = stack \o <<NewRule>>
          ELSE result' = Raise("ValueError", "Group must be preceded by an operator")]_vars

\* C15: closing a group replaces the enclosing rule by the group only when
\* the enclosing rule has no operator and no operand; a group that follows
\* a pending NOT or FROM becomes that operator's right operand, so the
\* operator is still on the enclosing rule after the step.
C15_CollapseKeepsPendingOperator ==
    [][(Yields /\ Lexed.token = <<")">> /\ Len(stack) > 1) =>
          LET child == Top(stack)
              rule == Top(Pop(stack))
          IN /\ (result' = Running /\ stack' = Pop(Pop(stack)) \o <<child>>) =>
                    rule = NewRule
             /\ (rule.operator \in Range(UNARY_OPERATORS) /\ rule.left = None
                     /\ rule.right = None) =>
                    /\ result' = Running
                    /\ stack' = Pop(Pop(stack)) \o <<[rule EXCEPT !.right = child]>>]_vars

\* the tokens _lex yielded from offset i up to offset p
RECURSIVE TokensUpTo(_, _, _)
TokensUpTo(txt, i, p) ==
    IF i >= p \/ LexNext(txt, i).type # "yield" THEN <<>>
    ELSE <<LexNext(txt, i).token>> \o TokensUpTo(txt, LexNext(txt, i).i, p)

\* the groups opened and not yet closed by the tokens consumed so far
OpenGroups ==
    Cardinality({k \in DOMAIN TokensUpTo(expr, 1, pos) :
                    TokensUpTo(expr, 1, pos)[k] = <<"(">>})
        - Cardinality({k \in DOMAIN TokensUpTo(expr, 1, pos) :
                          TokensUpTo(expr, 1, pos)[k] = <<")">>})

\* C16: while parse builds, the stack holds the root and one rule per open
\* group; an unmatched ( at the end of input, or a ) with no open group,
\* makes parse fail with a definition error (ValueError), never return a
\* rule and never fail on the empty stack.
C16_ParenthesesBalance ==
    /\ result = Running => Len(stack) = 1 + OpenGroups
    /\ (result.type \in {"ScanRule", "raise"} /\ pos >= 1) =>
          /\ (Lexed.type = "return" /\ OpenGroups > 0) =>
                 result = Raise("ValueError", "Unclosed group")
          /\ (Lexed.type = "yield" /\ Lexed.token = <<")">> /\ OpenGroups = 0) =>
                 (IsRaise(result) /\ result.exc = "ValueError")

-----------------------------------------------------------------------------
(* Properties of the lexer, checked under SpecLex *)

\* C17: whitespace between tokens is insignificant: a text lexes to the
\* token sequence of the same text with a blank between every two tokens;
\* an operator keyword directly followed by a literal or a parenthesis
\* yields the uppercase operator and then that literal or parenthesis.
C17_WhitespaceInsignificant ==
    result # Running =>
        /\ result = Returned
        /\ tokens = TokensUpTo(spaced, 1, Len(spaced) + 1)

=============================================================================
